---- MODULE Spec2Model ----
(***************************************************************************)
(* Model of the network probing core of Cybertoolkit:                      *)
(*   tools/bannerhunter.py  (port sanitizer, resolver, banner prober,      *)
(*                           fingerprint matcher, scan orchestrator)       *)
(*   tools/crawleye.py      (crawl engine)                                 *)
(*                                                                         *)
(* Text is modelled as a sequence of tokens: a token is one character      *)
(* ("7", ".", "/", " ") or one keyword of the rule table ("OpenSSH").      *)
(***************************************************************************)
EXTENDS Integers, Sequences, FiniteSets, TLC

VARIABLES
    \* ---- BannerHunter object and one scan() invocation
    pc,             \* position of the scan: "new", "ready", "resolve", "loop", "g_*", "done"
    target,         \* self.target
    ports_arg,      \* the ports argument of __init__ (optional list of raw values)
    timeout,        \* self.timeout, in tenths of a second
    ports,          \* self.ports
    unreachable,    \* environment: TRUE when the target hosts refuse every connect
    out,            \* the report under construction: [dns, entries, note]
    ip_list,        \* scan()'s ip_list
    ip_i, port_i,   \* loop positions in ip_list and self.ports
    res,            \* grab_banner's res dict
    data,           \* grab_banner's data (bytes received)
    sock,           \* the socket of the current grab: "none", "open", "closed"
    open_sockets,   \* number of sockets currently open
    connects,       \* connect attempts made by the current grab_banner call
    conn_ok,        \* whether the current grab's connect succeeded
    io,             \* trace of the socket operations of the current grab
    dns_lookups,    \* number of gethostbyname_ex calls made
    net,            \* what the network gave the probes of the current scan(), one record
                    \* per probe: whether a socket and a connection were obtained, and
                    \* the bytes read
    \* ---- the caller of BannerHunter: the /bannerhunter route, a second scan()
    form,           \* the fields of the POST form: [target, ports]
    first,          \* the report of the previous scan() of this object, with its net
    \* ---- fingerprint matcher applied to a constructed banner
    banner,         \* the banner text
    fp,             \* result of _fingerprint(banner): [called, product, version, risk]
    \* ---- CrawlEye object and one crawl() invocation
    cpc,            \* position of the crawl
    base_url, domain, max_pages,
    visited, queue, discovered,
    robots_paths, sitemap_urls, sensitive_hits,
    sens_i,         \* loop position in COMMON_SENSITIVE_PATHS
    failed,         \* the phases whose except clause swallowed an exception
    pops,           \* how many URLs the BFS loop has popped from the queue (line 96)
    page,           \* the href values of the anchors of the page parsed last (line 110)
    sens_status,    \* the status of the latest sensitive-path response, 0 for a request
                    \* exception, -1 before the first request
    fetch_log,      \* the page requests of the BFS in order: [url, status], 0 for an exception
    report,         \* the dict crawl() returns
    \* ---- two BannerHunter objects used by concurrently handled requests
    heap,           \* the list objects: DEFAULT_PORTS and the lists _sanitize_ports returned
    hunters,        \* per hunter: position, target, ports argument, the list object that
                    \* self.ports refers to, the loop positions and the entries so far
    \* ---- the history log
    log_file,       \* logs/history.json: [valid, events], newest event first
    requests,       \* per request that calls add_log: position and the local list logs
    site_linked     \* environment: TRUE for a site of linked pages without robots.txt,
                    \* sitemap.xml and sensitive paths, FALSE for a site of pages
                    \* without links that may serve those

scanVars == <<pc, target, ports_arg, timeout, ports, unreachable, out, ip_list, ip_i, port_i,
              res, data, sock, open_sockets, connects, conn_ok, io, dns_lookups, net>>
callerVars == <<form, first>>
fpVars == <<banner, fp>>
crawlVars == <<cpc, base_url, domain, max_pages, visited, queue, discovered,
               robots_paths, sitemap_urls, sensitive_hits, sens_i, failed, fetch_log,
               pops, page, sens_status, report, site_linked>>
concVars == <<heap, hunters>>
logVars == <<log_file, requests>>
vars == <<scanVars, callerVars, fpVars, crawlVars, concVars, logVars>>

\* ------------------------------------------------------------------ helpers

Min(a, b) == IF a <= b THEN a ELSE b

Last(s) == s[Len(s)]

RECURSIVE Repeat(_, _)
Repeat(s, n) == IF n = 0 THEN <<>> ELSE s \o Repeat(s, n - 1)

\* all sequences over S of length at most n
SeqsUpTo(S, n) == UNION {[1..k -> S] : k \in 0..n}

Digits == {"0", "1", "2", "3", "4", "5", "6", "7", "8", "9"}

IsDigit(t) == t \in Digits

DigitVal(t) ==
    CASE t = "0" -> 0 [] t = "1" -> 1 [] t = "2" -> 2 [] t = "3" -> 3 [] t = "4" -> 4
      [] t = "5" -> 5 [] t = "6" -> 6 [] t = "7" -> 7 [] t = "8" -> 8 [] t = "9" -> 9

\* whitespace as matched by str.strip() and by \s
IsSpace(t) == t \in {" ", "\n"}

RECURSIVE LStrip(_)
LStrip(s) == IF s # <<>> /\ IsSpace(s[1]) THEN LStrip(Tail(s)) ELSE s

RECURSIVE RStrip(_)
RStrip(s) == IF s # <<>> /\ IsSpace(s[Len(s)]) THEN RStrip(SubSeq(s, 1, Len(s) - 1)) ELSE s

\* str.strip()
Strip(s) == RStrip(LStrip(s))

\* value of a non-empty run of decimal digits
RECURSIVE DigitsToInt(_)
DigitsToInt(s) ==
    IF s = <<>> THEN 0 ELSE 10 * DigitsToInt(SubSeq(s, 1, Len(s) - 1)) + DigitVal(s[Len(s)])

AllDigits(s) == s # <<>> /\ \A k \in 1..Len(s) : IsDigit(s[k])

\* ------------------------------------------------------------------ port sanitizer

DEFAULT_PORTS == <<21, 22, 23, 25, 80, 110, 143, 443, 3306, 5432>>
MAX_PORTS == 20
MinPort == 1
MaxPort == 65535

\* raw values a caller may put in the port list
IntVal(n) == [kind |-> "int", n |-> n, s |-> <<>>]
StrVal(s) == [kind |-> "str", n |-> 0, s |-> s]
FloatVal(tenths) == [kind |-> "float", n |-> tenths, s |-> <<>>]
NoneVal == [kind |-> "none", n |-> 0, s |-> <<>>]

\* an optional list: None, or a list
NoList == [some |-> FALSE, val |-> <<>>]
List(l) == [some |-> TRUE, val |-> l]

\* int(str): surrounding whitespace is ignored, one optional sign, then digits only
IntOfStr(s) ==
    LET t == Strip(s)
        signed == t # <<>> /\ t[1] \in {"-", "+"}
        body == IF signed THEN Tail(t) ELSE t
    IN  IF AllDigits(body)
        THEN [ok |-> TRUE,
              v |-> IF signed /\ t[1] = "-" THEN 0 - DigitsToInt(body) ELSE DigitsToInt(body)]
        ELSE [ok |-> FALSE, v |-> 0]

\* int(p): [ok |-> FALSE] stands for the exception int() raises
IntOf(p) ==
    CASE p.kind = "int" -> [ok |-> TRUE, v |-> p.n]
      [] p.kind = "float" ->
            [ok |-> TRUE, v |-> IF p.n >= 0 THEN p.n \div 10 ELSE 0 - ((0 - p.n) \div 10)]
      [] p.kind = "str" -> IntOfStr(p.s)
      [] OTHER -> [ok |-> FALSE, v |-> 0]

\* the for loop of _sanitize_ports, from element i on
RECURSIVE SanitizeLoopNoCap(_, _, _)
SanitizeLoopNoCap(port_list, i, cleaned) ==
    IF i > Len(port_list) THEN cleaned
    ELSE LET c == IntOf(port_list[i]) IN
         IF ~c.ok THEN SanitizeLoopNoCap(port_list, i + 1, cleaned)
         ELSE SanitizeLoopNoCap(port_list, i + 1,
                  IF MinPort <= c.v /\ c.v <= MaxPort THEN Append(cleaned, c.v) ELSE cleaned)

RECURSIVE SanitizeLoop(_, _, _)
SanitizeLoop(port_list, i, cleaned) ==
    IF i > Len(port_list) THEN cleaned
    ELSE LET c == IntOf(port_list[i]) IN
         IF ~c.ok
         THEN SanitizeLoop(port_list, i + 1, cleaned)
         ELSE LET cleaned2 == IF MinPort <= c.v /\ c.v <= MaxPort
                              THEN Append(cleaned, c.v) ELSE cleaned
              IN  IF Len(cleaned2) >= MAX_PORTS
                  THEN cleaned2
                  ELSE SanitizeLoop(port_list, i + 1, cleaned2)

_sanitize_ports(port_list) ==
    IF ~port_list.some \/ port_list.val = <<>>
    THEN DEFAULT_PORTS
    ELSE LET cleaned == SanitizeLoop(port_list.val, 1, <<>>)
         IN  IF cleaned = <<>> THEN DEFAULT_PORTS ELSE cleaned

\* ------------------------------------------------------------------ fingerprint matcher

\* Python's None, for a text field and for a token sequence
None == "None"
NoneText == <<"None">>

\* text literals of the rule table and of the probes
Txt_2_4_49 == <<"2", ".", "4", ".", "4", "9">>
Txt_1_19_0 == <<"1", ".", "1", "9", ".", "0">>
Txt_7_6 == <<"7", ".", "6">>
Txt_3_0_3 == <<"3", ".", "0", ".", "3">>
Txt_4_92 == <<"4", ".", "9", "2">>
Txt_5_7 == <<"5", ".", "7">>
Txt_9_6 == <<"9", ".", "6">>

\* The ordered rule table. A compiled pattern is head, gap, group:
\*   head   the literal the pattern starts with
\*   gap    what may stand between the head and the capture group:
\*            "optslash_ws"  /?\s*        "optsep"  [_-]?      "ws1"  \s+
\*            "slash"        /            "lazy_ver_ws"  .*?Ver\s*    "lazy"  .*?
\*   group  the capture group:
\*            "d.d.d"  [0-9]+\.[0-9]+\.[0-9]+      "d.d"  [0-9]+\.[0-9]+
\*            "d.d(.d)"  [0-9]+\.[0-9]+(?:\.[0-9]+)?
\*            "d.d(pd)"  [0-9]+\.[0-9]+(?:p[0-9]+)?
\*   icase  re.I
FINGERPRINTS == <<
    [head |-> <<"Apache">>, gap |-> "optslash_ws", group |-> "d.d.d", icase |-> FALSE,
     product |-> "Apache HTTPD", ver_group |-> 1, threshold |-> Txt_2_4_49],
    [head |-> <<"nginx">>, gap |-> "optslash_ws", group |-> "d.d(.d)", icase |-> FALSE,
     product |-> "nginx", ver_group |-> 1, threshold |-> Txt_1_19_0],
    [head |-> <<"OpenSSH">>, gap |-> "optsep", group |-> "d.d(pd)", icase |-> FALSE,
     product |-> "OpenSSH", ver_group |-> 1, threshold |-> Txt_7_6],
    [head |-> <<"vsftpd">>, gap |-> "optslash_ws", group |-> "d.d(.d)", icase |-> FALSE,
     product |-> "vsftpd", ver_group |-> 1, threshold |-> Txt_3_0_3],
    [head |-> <<"Exim">>, gap |-> "ws1", group |-> "d.d", icase |-> FALSE,
     product |-> "Exim", ver_group |-> 1, threshold |-> Txt_4_92],
    [head |-> <<"Microsoft-IIS">>, gap |-> "optslash_ws", group |-> "d.d", icase |-> FALSE,
     product |-> "Microsoft IIS", ver_group |-> 1, threshold |-> NoneText],
    [head |-> <<"Apache", "-", "Coyote">>, gap |-> "slash", group |-> "d.d", icase |-> FALSE,
     product |-> "Apache Tomcat (Coyote)", ver_group |-> 1, threshold |-> NoneText],
    [head |-> <<"mysql">>, gap |-> "lazy_ver_ws", group |-> "d.d(.d)", icase |-> TRUE,
     product |-> "MySQL", ver_group |-> 1, threshold |-> Txt_5_7],
    [head |-> <<"PostgreSQL">>, gap |-> "lazy", group |-> "d.d(.d)", icase |-> TRUE,
     product |-> "PostgreSQL", ver_group |-> 1, threshold |-> Txt_9_6] >>

\* case folding of the keyword tokens (re.I)
Lower(t) ==
    CASE t \in {"mysql", "MySQL", "MYSQL"} -> "mysql"
      [] t \in {"PostgreSQL", "postgresql", "POSTGRESQL"} -> "postgresql"
      [] t \in {"Ver", "ver", "VER"} -> "ver"
      [] OTHER -> t

TokEq(t, lit, icase) == IF icase THEN Lower(t) = Lower(lit) ELSE t = lit

\* first position at or after i that holds no digit: [0-9]* matched greedily from i
RECURSIVE DigitsEnd(_, _)
DigitsEnd(b, i) == IF i <= Len(b) /\ IsDigit(b[i]) THEN DigitsEnd(b, i + 1) ELSE i

\* first position at or after i that holds no whitespace: \s* matched greedily
RECURSIVE SkipSpaces(_, _)
SkipSpaces(b, i) == IF i <= Len(b) /\ IsSpace(b[i]) THEN SkipSpaces(b, i + 1) ELSE i

\* [0-9]+ at i followed by sep and [0-9]+ : position after it, 0 when it does not match
DigitsSepDigits(b, i, sep) ==
    LET e1 == DigitsEnd(b, i)
        e2 == DigitsEnd(b, e1 + 1)
    IN  IF e1 > i /\ e1 <= Len(b) /\ b[e1] = sep /\ e2 > e1 + 1 THEN e2 ELSE 0

\* sep and [0-9]+ at i : position after it, 0 when it does not match
SepDigits(b, i, sep) ==
    LET e == DigitsEnd(b, i + 1)
    IN  IF i <= Len(b) /\ b[i] = sep /\ e > i + 1 THEN e ELSE 0

\* the capture group at g: position after the captured text, 0 when it does not match
GroupEnd(b, g, group) ==
    LET e2 == DigitsSepDigits(b, g, ".")
        e3 == SepDigits(b, e2, IF group = "d.d(pd)" THEN "p" ELSE ".")
    IN  IF g = 0 \/ g > Len(b) \/ e2 = 0 THEN 0
        ELSE CASE group = "d.d" -> e2
               [] group = "d.d.d" -> e3
               [] group \in {"d.d(.d)", "d.d(pd)"} -> IF e3 # 0 THEN e3 ELSE e2

HeadAt(b, i, rule) ==
    /\ i + Len(rule.head) - 1 <= Len(b)
    /\ \A k \in 1..Len(rule.head) : TokEq(b[i + k - 1], rule.head[k], rule.icase)

\* "." matches every character but the newline
NoNewline(b, from, to) == \A k \in from..to : b[k] # "\n"

\* The positions where the capture group may start when the gap is matched from p on,
\* the set being tried in increasing order. The greedy gaps leave one position (a
\* shorter match of the gap leaves the group facing a character of the gap, never a
\* digit); the lazy gaps try every position from p on.
GapEnds(b, p, rule) ==
    CASE rule.gap = "optslash_ws" ->
            {SkipSpaces(b, IF p <= Len(b) /\ b[p] = "/" THEN p + 1 ELSE p)}
      [] rule.gap = "optsep" ->
            {IF p <= Len(b) /\ b[p] \in {"_", "-"} THEN p + 1 ELSE p}
      [] rule.gap = "ws1" ->
            IF p <= Len(b) /\ IsSpace(b[p]) THEN {SkipSpaces(b, p)} ELSE {}
      [] rule.gap = "slash" ->
            IF p <= Len(b) /\ b[p] = "/" THEN {p + 1} ELSE {}
      [] rule.gap = "lazy_ver_ws" ->
            {SkipSpaces(b, j + 1) :
                j \in {x \in p..Len(b) : NoNewline(b, p, x - 1) /\ TokEq(b[x], "Ver", rule.icase)}}
      [] rule.gap = "lazy" ->
            {j \in p..Len(b) : NoNewline(b, p, j - 1)}

NoMatch == [found |-> FALSE, gs |-> 0, ge |-> 0]

\* the least element of a non-empty set of numbers
Least(S) == CHOOSE x \in S : \A y \in S : x <= y

\* the pattern matched with its head at i: [found, gs, ge], the group is b[gs..ge-1]
MatchAt(b, i, rule) ==
    IF ~HeadAt(b, i, rule) THEN NoMatch
    ELSE LET ends == [g \in GapEnds(b, i + Len(rule.head), rule) |->
                         GroupEnd(b, g, rule.group)]
             G == {g \in DOMAIN ends : ends[g] # 0}
         IN  IF G = {} THEN NoMatch
             ELSE [found |-> TRUE, gs |-> Least(G), ge |-> ends[Least(G)]]

\* patt.search(b): the match whose start is leftmost
Search(b, rule) ==
    LET at == [i \in 1..Len(b) |-> MatchAt(b, i, rule)]
        I == {i \in 1..Len(b) : at[i].found}
    IN  IF I = {} THEN NoMatch ELSE at[Least(I)]

\* re.sub(r"[^0-9\.]", "", version_raw)
KeepDigitsDots(t) == IsDigit(t) \/ t = "."
\* line 131 returning the captured text as it is
NormalizeKeepsAll(version_raw) == version_raw

NormalizeVersion(version_raw) == SelectSeq(version_raw, KeepDigitsDots)

\* the dot-separated segments of a text of digits and dots
RECURSIVE SplitDots(_, _)
SplitDots(v, cur) ==
    IF v = <<>> THEN <<cur>>
    ELSE IF v[1] = "." THEN <<cur>> \o SplitDots(Tail(v), <<>>)
    ELSE SplitDots(Tail(v), Append(cur, v[1]))

\* packaging.version.parse rejecting every text
ParseVersionFails(v) == [ok |-> FALSE, release |-> <<>>]

\* packaging.version.parse on a text of digits and dots: the release tuple, or a failure
parse_version(v) ==
    LET segs == SplitDots(v, <<>>)
    IN  IF \A k \in 1..Len(segs) : AllDigits(segs[k])
        THEN [ok |-> TRUE, release |-> [k \in 1..Len(segs) |-> DigitsToInt(segs[k])]]
        ELSE [ok |-> FALSE, release |-> <<>>]

Seg(r, k) == IF k <= Len(r) THEN r[k] ELSE 0

\* strict comparison of release tuples
VersionLT(a, b) ==
    LET n == IF Len(a) >= Len(b) THEN Len(a) ELSE Len(b)
        D == {k \in 1..n : Seg(a, k) # Seg(b, k)}
    IN  D # {} /\ LET k == CHOOSE x \in D : \A y \in D : x <= y IN Seg(a, k) < Seg(b, k)

\* Version.__le__ on release tuples: segment by segment, missing segments count as 0
VersionLE(a, b) ==
    LET n == IF Len(a) >= Len(b) THEN Len(a) ELSE Len(b)
        D == {k \in 1..n : Seg(a, k) # Seg(b, k)}
    IN  D = {} \/ LET k == CHOOSE x \in D : \A y \in D : x <= y IN Seg(a, k) < Seg(b, k)

\* the risk branch of _fingerprint
RiskOf(ver_norm, threshold) ==
    IF threshold # NoneText
    THEN LET a == parse_version(ver_norm)
             t == parse_version(threshold)
         IN  IF a.ok /\ t.ok
             THEN IF VersionLE(a.release, t.release) THEN "potentially_outdated" ELSE "ok"
             ELSE "unknown"
    ELSE "unknown"

\* the body of the loop of _fingerprint for a rule that matched
RuleResult(b, rule, m) ==
    LET version_raw == SubSeq(b, m.gs, m.ge - 1)
    IN  IF version_raw # <<>>
        THEN LET ver_norm == NormalizeVersion(version_raw)
             IN  [product |-> rule.product, version |-> ver_norm,
                  risk |-> RiskOf(ver_norm, rule.threshold)]
        ELSE [product |-> rule.product, version |-> NoneText, risk |-> "unknown"]

NoMatchResult == [product |-> None, version |-> NoneText, risk |-> "unknown"]

\* the rule whose match lies leftmost in b, whatever its place in the table
FirstRuleByPosition(b, k) ==
    LET M == {r \in k..Len(FINGERPRINTS) : Search(b, FINGERPRINTS[r]).found}
    IN  IF M = {} THEN 0
        ELSE CHOOSE r \in M : \A r2 \in M :
                 \/ Search(b, FINGERPRINTS[r]).gs < Search(b, FINGERPRINTS[r2]).gs
                 \/ /\ Search(b, FINGERPRINTS[r]).gs = Search(b, FINGERPRINTS[r2]).gs
                    /\ r <= r2

\* the for loop of _fingerprint: the first rule of the table, from rule k on, whose
\* pattern is found in b; 0 when there is none
RECURSIVE FirstRule(_, _)
FirstRule(b, k) ==
    IF k > Len(FINGERPRINTS) THEN 0
    ELSE IF Search(b, FINGERPRINTS[k]).found THEN k
    ELSE FirstRule(b, k + 1)

_fingerprint(b) ==
    LET banner_clean == Strip(b)
        k == FirstRule(banner_clean, 1)
    IN  IF k = 0 THEN NoMatchResult
        ELSE RuleResult(banner_clean, FINGERPRINTS[k], Search(banner_clean, FINGERPRINTS[k]))

\* ------------------------------------------------------------------ resolver

DEFAULT_TIMEOUT == 25
MAX_READ == 1500

IpA == "192.0.2.1"
IpB == "10.0.0.5"

\* strings socket.inet_aton accepts
IpLiterals == {IpA, IpB}

\* str.strip() on the target strings of the model
StripTarget(t) ==
    CASE t = " 192.0.2.1 " -> IpA
      [] t = "  " -> ""
      [] OTHER -> t

_looks_like_ip(s) == s \in IpLiterals

\* what socket.gethostbyname_ex may do for a name: raise, or return addresses
DnsFailure == [error |-> "DNS resolution failed: Name or service not known",
               hostname |-> None, aliases |-> <<>>, ips |-> <<>>]
DnsAnswer(t, ips) == [error |-> None, hostname |-> t, aliases |-> <<>>, ips |-> ips]
DnsOutcomes(t) == {DnsFailure, DnsAnswer(t, <<IpA>>), DnsAnswer(t, <<IpB, IpA>>)}

\* resolve() without the short cut of line 57
ResolveAlwaysLooksUp(t) == DnsOutcomes(t)

\* resolve(): the results it may return for self.target = t
resolve(t) == IF _looks_like_ip(t) THEN {DnsAnswer(t, <<t>>)} ELSE DnsOutcomes(t)

\* lines 151-155 with the target itself probed when the resolution gave an error
IpListOfTargetOnError(resolved, t) ==
    IF resolved.ips # <<>> THEN resolved.ips ELSE <<t>>

\* ip_list as scan() derives it from the resolution result
IpListOf(resolved, t) ==
    IF resolved.ips # <<>> THEN resolved.ips
    ELSE IF resolved.error # None THEN (IF _looks_like_ip(t) THEN <<t>> ELSE <<>>)
    ELSE <<>>

\* ------------------------------------------------------------------ banner prober

WebPorts == {80, 8080, 8000, 8888}
MailPorts == {25, 587, 110, 143}

\* _gentle_probe: the bytes handed to sendall for a port
ProbeAlwaysLine(port) == "CRLF"

_gentle_probe(port) ==
    IF port \in WebPorts THEN "HEAD / HTTP/1.0 Host: example"
    ELSE IF port \in MailPorts THEN "CRLF"
    ELSE "CRLF"

\* bytes.decode(errors="replace"): an undecodable byte becomes U+FFFD
DecodeToken(t) == IF t = "xFF" THEN "U+FFFD" ELSE t
Decode(d) == [k \in 1..Len(d) |-> DecodeToken(d[k])]

\* what a peer may send: non-empty byte strings of at most MAX_READ bytes
BannerSSH == <<"SSH", "-", "2", ".", "0", "-", "OpenSSH", "_", "7", ".", "4", "\n">>
BannerJunk == <<"xFF", "2", "2", "0", " ">>
BannerBlank == <<" ", "\n">>
PeerData == {BannerSSH, BannerJunk, BannerBlank}

NewRes(ip, port) ==
    [ip |-> ip, port |-> port, success |-> FALSE, raw |-> <<>>, product |-> None,
     version |-> NoneText, risk |-> "unknown", error |-> None]

\* lines 97-111 of grab_banner with success made to depend on the banner text
FinishResNeedsBanner(r, d) ==
    LET raw == IF d # <<>> THEN Strip(Decode(d)) ELSE <<>>
        f == _fingerprint(raw)
    IN  IF raw # <<>>
        THEN [r EXCEPT !.raw = raw, !.success = TRUE, !.product = f.product,
                       !.version = f.version, !.risk = f.risk]
        ELSE [r EXCEPT !.raw = raw]

\* lines 101-104: the product, version and risk of res taken from _fingerprint's answer
WithFingerprint(r, f) ==
    [r EXCEPT !.product = f.product, !.version = f.version, !.risk = f.risk]

\* lines 97-111 of grab_banner: the result once the reads are over
FinishRes(r, d) ==
    LET raw == IF d # <<>> THEN Strip(Decode(d)) ELSE <<>>
    IN  IF raw # <<>>
        THEN WithFingerprint([r EXCEPT !.raw = raw, !.success = TRUE], _fingerprint(raw))
        ELSE [r EXCEPT !.raw = raw, !.success = TRUE, !.product = None,
                       !.version = NoneText, !.risk = "unknown"]

\* lines 113-115 with the failed attempt reported as a success
FailResMarksSuccess(r, e) == [r EXCEPT !.error = e, !.success = TRUE]

\* lines 113-115 returning res without the error text
FailResWithoutError(r, e) == r

\* lines 113-115: the result when an exception left the try block
FailRes(r, e) == [r EXCEPT !.error = e]

\* the with statement: the count of open sockets once the block is left
LeaveWithLeakOnRaise(n, raised) == IF raised THEN n ELSE n - 1

LeaveWith(n, raised) == n - 1

\* ------------------------------------------------------------------ scan orchestrator

\* out["entries"].append(e)
CollectSuccessOnly(entries, e) == IF e.success THEN Append(entries, e) ELSE entries

Collect(entries, e) == Append(entries, e)

\* the nested for loops: the position after (i, j), j ranging over n ports
NextPosSkipsLastPort(i, j, n) == IF j + 1 < n THEN <<i, j + 1>> ELSE <<i + 1, 1>>

NextPos(i, j, n) == IF j < n THEN <<i, j + 1>> ELSE <<i + 1, 1>>

\* grab_banner returns entry e to scan(), which appends it and moves on
ReturnEntry(e, sock_after, open_after) ==
    LET nxt == NextPos(ip_i, port_i, Len(ports))
    IN  /\ res' = e
        /\ out' = [out EXCEPT !.entries = Collect(out.entries, e)]
        /\ sock' = sock_after
        /\ open_sockets' = open_after
        /\ ip_i' = nxt[1]
        /\ port_i' = nxt[2]
        /\ pc' = IF nxt[1] > Len(ip_list) THEN "done" ELSE "loop"

\* BannerHunter.__init__
Construct ==
    /\ pc = "new"
    /\ target' = StripTarget(target)
    /\ ports' = _sanitize_ports(ports_arg)
    /\ pc' = "ready"
    /\ UNCHANGED <<ports_arg, timeout, unreachable, out, ip_list, ip_i, port_i, res, data,
                   sock, open_sockets, connects, conn_ok, io, dns_lookups, net>>

\* the record net keeps of one probe
Answer(kind, d) == [kind |-> kind, d |-> d]

\* lines 148-158 with the entries of the previous report carried over
NewReportKeepsEntries(prev, resolved, ips) ==
    [dns |-> resolved, entries |-> prev.entries,
     note |-> IF ips = <<>> THEN "no-resolvable-ip" ELSE None]

\* lines 148-158: the report scan() starts from is a new dict, whatever report prev
\* an earlier scan() returned
NewReport(prev, resolved, ips) ==
    [dns |-> resolved, entries |-> <<>>,
     note |-> IF ips = <<>> THEN "no-resolvable-ip" ELSE None]

\* scan(), lines 148-159: resolution, ip_list, the early return
ScanResolve ==
    /\ pc = "ready"
    /\ \E resolved \in resolve(target) :
         LET ips == IpListOf(resolved, target)
         IN  /\ ip_list' = ips
             /\ out' = NewReport(out, resolved, ips)
             /\ pc' = IF ips = <<>> THEN "done" ELSE "loop"
    /\ dns_lookups' = IF _looks_like_ip(target) THEN dns_lookups ELSE dns_lookups + 1
    /\ ip_i' = 1
    /\ port_i' = 1
    /\ net' = <<>>
    /\ UNCHANGED <<target, ports_arg, timeout, ports, unreachable, res, data, sock,
                   open_sockets, connects, conn_ok, io>>

\* grab_banner, lines 77-80: res, socket.socket(), settimeout
GrabOpen ==
    /\ pc = "loop"
    /\ connects' = 0
    /\ conn_ok' = FALSE
    /\ io' = <<>>
    /\ data' = <<>>
    /\ LET r == NewRes(ip_list[ip_i], ports[port_i])
       IN  \/ \* socket.socket() raises: no socket was opened
              /\ ~unreachable
              /\ net' = Append(net, Answer("socket:error", <<>>))
              /\ ReturnEntry(FailRes(r, "Too many open files"), "none", open_sockets)
           \/ \* settimeout raises ValueError on a negative timeout
              /\ timeout < 0
              /\ net' = Append(net, Answer("socket:unused", <<>>))
              /\ ReturnEntry(FailRes(r, "Timeout value out of range"), "closed",
                             LeaveWith(open_sockets + 1, TRUE))
           \/ /\ timeout >= 0
              /\ net' = net
              /\ res' = r
              /\ sock' = "open"
              /\ open_sockets' = open_sockets + 1
              /\ pc' = "g_connect"
              /\ UNCHANGED <<out, ip_i, port_i>>
    /\ UNCHANGED <<target, ports_arg, timeout, ports, unreachable, ip_list, dns_lookups>>

\* grab_banner, line 81: the one connect
GrabConnect ==
    /\ pc = "g_connect"
    /\ connects' = connects + 1
    /\ io' = Append(io, "connect")
    /\ \/ \* connect raises
          /\ conn_ok' = FALSE
          /\ net' = Append(net, Answer("connect:refused", <<>>))
          /\ ReturnEntry(FailRes(res, "Connection refused"), "closed",
                         LeaveWith(open_sockets, TRUE))
       \/ /\ ~unreachable
          /\ conn_ok' = TRUE
          /\ net' = net
          /\ pc' = "g_recv1"
          /\ UNCHANGED <<out, ip_i, port_i, res, sock, open_sockets>>
    /\ UNCHANGED <<target, ports_arg, timeout, ports, unreachable, ip_list, data, dns_lookups>>

\* s.recv(MAX_READ): at most MAX_READ bytes of what the peer sent
Recv(d) == SubSeq(d, 1, Min(Len(d), MAX_READ))

\* what a recv may give: bytes, b"" from a peer that closed, or an exception
\* (socket.timeout or another one), which both handlers turn into b""
RecvOutcomes == {[kind |-> "bytes", d |-> Recv(d)] : d \in PeerData}
                \cup {[kind |-> k, d |-> <<>>] : k \in {"closed", "timeout", "error"}}

RecvLabel(d) == IF d # <<>> THEN "recv:bytes" ELSE "recv:none"

\* grab_banner, lines 83-90: the first read
GrabRecv1 ==
    /\ pc = "g_recv1"
    /\ \E o \in RecvOutcomes :
         /\ data' = o.d
         /\ io' = Append(io, RecvLabel(o.d))
         /\ pc' = IF o.d # <<>> THEN "g_finish" ELSE "g_probe"
    /\ UNCHANGED <<target, ports_arg, timeout, ports, unreachable, out, ip_list, ip_i,
                   port_i, res, sock, open_sockets, connects, conn_ok, dns_lookups, net>>

\* grab_banner, line 92: _gentle_probe; an exception of sendall is swallowed
GrabProbe ==
    /\ pc = "g_probe"
    /\ \E sent \in BOOLEAN :
         io' = Append(io, IF sent THEN _gentle_probe(res.port) ELSE "send:error")
    /\ pc' = "g_recv2"
    /\ UNCHANGED <<target, ports_arg, timeout, ports, unreachable, out, ip_list, ip_i,
                   port_i, res, data, sock, open_sockets, connects, conn_ok, dns_lookups, net>>

\* grab_banner, lines 93-95: the second read
GrabRecv2 ==
    /\ pc = "g_recv2"
    /\ \E o \in RecvOutcomes :
         /\ data' = o.d
         /\ io' = Append(io, RecvLabel(o.d))
    /\ pc' = "g_finish"
    /\ UNCHANGED <<target, ports_arg, timeout, ports, unreachable, out, ip_list, ip_i,
                   port_i, res, sock, open_sockets, connects, conn_ok, dns_lookups, net>>

\* grab_banner, lines 97-111: the result is filled in and returned, the with block is left
GrabFinish ==
    /\ pc = "g_finish"
    /\ ReturnEntry(FinishRes(res, data), "closed", LeaveWith(open_sockets, FALSE))
    /\ net' = Append(net, Answer("connected", data))
    /\ UNCHANGED <<target, ports_arg, timeout, ports, unreachable, ip_list, data, connects,
                   conn_ok, io, dns_lookups>>

\* ------------------------------------------------------------------ inputs of a scan

MaxLivePorts == 2

TargetInputs == {IpA, " 192.0.2.1 ", "host.test", "  "}

TimeoutInputs == {DEFAULT_TIMEOUT, -10}

ScanPortInputs ==
    {NoList,
     List(<<>>),
     List(<<IntVal(22)>>),
     List(<<IntVal(80), IntVal(22)>>),
     List(<<StrVal(<<"a", "b", "c">>), StrVal(<<"8", "0", "8", "0">>), IntVal(0)>>),
     List(<<IntVal(22), IntVal(22), StrVal(<<" ", "8", "0">>)>>),
     List(<<IntVal(70000), NoneVal>>)}

EmptyOut == [dns |-> DnsFailure, entries |-> <<>>, note |-> None]

ScanIdle ==
    /\ pc = "idle"
    /\ target = ""
    /\ ports_arg = NoList
    /\ timeout = DEFAULT_TIMEOUT
    /\ ports = <<>>
    /\ unreachable = TRUE
    /\ out = EmptyOut
    /\ ip_list = <<>>
    /\ ip_i = 1
    /\ port_i = 1
    /\ res = NewRes("", 0)
    /\ data = <<>>
    /\ sock = "none"
    /\ open_sockets = 0
    /\ connects = 0
    /\ conn_ok = FALSE
    /\ io = <<>>
    /\ dns_lookups = 0
    /\ net = <<>>

\* no form was posted and no scan() has returned yet
NoForm == [target |-> "", ports |-> NoList]
NoReport == [done |-> FALSE, dns |-> DnsFailure, entries |-> <<>>, net |-> <<>>]

CallerIdle ==
    /\ form = NoForm
    /\ first = NoReport

\* a BannerHunter about to be constructed with the given arguments
ScanInit ==
    /\ pc = "new"
    /\ target \in TargetInputs
    /\ ports_arg \in ScanPortInputs
    /\ timeout \in TimeoutInputs
    /\ unreachable \in BOOLEAN
    /\ unreachable \/ Len(_sanitize_ports(ports_arg)) <= MaxLivePorts
    /\ ports = <<>>
    /\ out = EmptyOut
    /\ ip_list = <<>>
    /\ ip_i = 1
    /\ port_i = 1
    /\ res = NewRes("", 0)
    /\ data = <<>>
    /\ sock = "none"
    /\ open_sockets = 0
    /\ connects = 0
    /\ conn_ok = FALSE
    /\ io = <<>>
    /\ dns_lookups = 0
    /\ net = <<>>

\* ------------------------------------------------------------------ a second scan()

\* the caller keeps the report scan() returned and calls scan() again on the object
ScanAgain ==
    /\ pc = "done"
    /\ ~first.done
    /\ first' = [done |-> TRUE, dns |-> out.dns, entries |-> out.entries, net |-> net]
    /\ pc' = "ready"
    /\ UNCHANGED <<target, ports_arg, timeout, ports, unreachable, out, ip_list, ip_i,
                   port_i, res, data, sock, open_sockets, connects, conn_ok, io,
                   dns_lookups, net, form>>

MaxRescanPorts == 1

\* the objects scanned twice: any of ScanInit against hosts that refuse every connect,
\* a literal IP with at most MaxRescanPorts ports against a host that may answer
RescanInit ==
    /\ ScanInit
    /\ \/ unreachable
       \/ /\ StripTarget(target) \in IpLiterals
          /\ Len(_sanitize_ports(ports_arg)) <= MaxRescanPorts

\* ------------------------------------------------------------------ the /bannerhunter route

\* the ports field of the form: absent or empty, or its text split at the commas
NoPortsField == [some |-> FALSE, val |-> <<>>]
PortsField(fields) == [some |-> TRUE, val |-> fields]

\* app.py line 343: [int(p) for p in ports_raw.split(",")] if ports_raw else None;
\* ok is FALSE when an int(p) raises ValueError
RoutePorts(ports_raw) ==
    IF ~ports_raw.some THEN [ok |-> TRUE, ports |-> NoList]
    ELSE LET c == [k \in 1..Len(ports_raw.val) |-> IntOfStr(ports_raw.val[k])]
         IN  IF \E k \in 1..Len(c) : ~c[k].ok
             THEN [ok |-> FALSE, ports |-> NoList]
             ELSE [ok |-> TRUE, ports |-> List([k \in 1..Len(c) |-> IntVal(c[k].v)])]

\* app.py lines 340-345 of the POST branch: the form is read and the BannerHunter is
\* about to be constructed, or the view raised ("raised": the request fails)
bannerhunter ==
    /\ pc = "request"
    /\ LET p == RoutePorts(form.ports)
       IN  IF p.ok
           THEN /\ target' = form.target
                /\ ports_arg' = p.ports
                /\ pc' = "new"
           ELSE /\ pc' = "raised"
                /\ UNCHANGED <<target, ports_arg>>
    /\ UNCHANGED <<timeout, ports, unreachable, out, ip_list, ip_i, port_i, res, data,
                   sock, open_sockets, connects, conn_ok, io, dns_lookups, net, form, first>>

FormTargets == {IpA, "host.test", "", "  "}

FormPorts ==
    {NoPortsField,
     PortsField(<<<<"2", "2">>>>),
     PortsField(<<<<"8", "0">>, <<" ", "2", "2">>>>),
     PortsField(<<<<"7", "0", "0", "0", "0">>, <<"2", "2">>>>),
     PortsField(<<<<"0">>, <<"-", "1">>>>),
     PortsField(<<<<"8", "0">>, <<"a", "b", "c">>>>),
     PortsField(<<<<"8", "0">>, <<>>>>)}

\* a POST request to /bannerhunter has arrived
RequestInit ==
    /\ pc = "request"
    /\ form \in [target : FormTargets, ports : FormPorts]
    /\ first = NoReport
    /\ target = ""
    /\ ports_arg = NoList
    /\ timeout = DEFAULT_TIMEOUT
    /\ unreachable \in BOOLEAN
    /\ unreachable \/ Len(_sanitize_ports(RoutePorts(form.ports).ports)) <= MaxLivePorts
    /\ ports = <<>>
    /\ out = EmptyOut
    /\ ip_list = <<>>
    /\ ip_i = 1
    /\ port_i = 1
    /\ res = NewRes("", 0)
    /\ data = <<>>
    /\ sock = "none"
    /\ open_sockets = 0
    /\ connects = 0
    /\ conn_ok = FALSE
    /\ io = <<>>
    /\ dns_lookups = 0
    /\ net = <<>>

\* ------------------------------------------------------------------ fingerprint inputs

MaxFrags == 3

\* pieces of banner text
Fragments ==
    {<<"Apache", "/">>, <<"nginx", "/">>, <<"OpenSSH", "_">>, <<"Microsoft-IIS", "/">>,
     <<"PostgreSQL", " ">>, <<"7", ".", "4">>, <<"7", ".", "6">>, <<"1", ".">>,
     <<"1", ".", "1", "9">>, <<".", "0">>, <<"p", "1">>, <<"9">>, <<" ">>,
     <<"nginx", "/", "1", ".", "9", " ">>, <<"Apache", "/", "2", ".", "4", ".", "4", "9">>}

RECURSIVE Concat(_)
Concat(ss) == IF ss = <<>> THEN <<>> ELSE ss[1] \o Concat(Tail(ss))

BannerInputs == {Concat(fs) : fs \in SeqsUpTo(Fragments, MaxFrags)}

FpIdle ==
    /\ banner = <<>>
    /\ fp = [called |-> FALSE, r |-> NoMatchResult]

FpInit ==
    /\ banner \in BannerInputs
    /\ fp = [called |-> FALSE, r |-> NoMatchResult]

\* a call of _fingerprint on the banner
Fingerprint ==
    /\ ~fp.called
    /\ fp' = [called |-> TRUE, r |-> _fingerprint(banner)]
    /\ UNCHANGED banner

\* ------------------------------------------------------------------ crawl engine

COMMON_SENSITIVE_PATHS ==
    <<"/admin", "/admin_old", "/login", "/dashboard", "/backup", "/backup.zip",
      "/config.php", "/config.php~", "/.git", "/test", "/uploads">>

Url(scheme, netloc, path, query) ==
    [scheme |-> scheme, netloc |-> netloc, path |-> path, query |-> query]

\* str.rstrip("/") on the paths of the model
RStripSlash(path) ==
    CASE path = "/" -> ""
      [] path = "/a/" -> "/a"
      [] OTHER -> path

\* CrawlEye.__init__, lines 31-34: the base URL kept for the base_url argument b;
\* scheme "" stands for an argument that does not start with "http"
BaseUrlOf(b) ==
    [b EXCEPT !.scheme = IF b.scheme = "" THEN "http" ELSE b.scheme,
              !.path = IF b.query = "" THEN RStripSlash(b.path) ELSE b.path]

\* urljoin(current, href) for an absolute href and for an absolute-path reference
urljoin(current, href) ==
    IF href.abs THEN Url(href.scheme, href.netloc, href.path, href.query)
    ELSE Url(current.scheme, current.netloc, href.path, href.query)

\* line 117 keeping the query of the link
CleanKeepsQuery(u) == u

\* line 117: f"{parsed.scheme}://{parsed.netloc}{parsed.path}"
Clean(u) == Url(u.scheme, u.netloc, u.path, "")

\* lines 118-119 appending every same-domain link, visited or not
RECURSIVE EnqueueVisitedToo(_, _, _, _, _)
EnqueueVisitedToo(q, anchors, current, dom, vis) ==
    IF anchors = <<>> THEN q
    ELSE LET url == urljoin(current, anchors[1])
         IN  EnqueueVisitedToo(IF url.netloc = dom THEN Append(q, Clean(url)) ELSE q,
                               Tail(anchors), current, dom, vis)

\* lines 112-119: the queue after the anchors of the page fetched from current
RECURSIVE Enqueue(_, _, _, _, _)
Enqueue(q, anchors, current, dom, vis) ==
    IF anchors = <<>> THEN q
    ELSE LET url == urljoin(current, anchors[1])
             q2 == IF url.netloc = dom /\ Clean(url) \notin vis
                   THEN Append(q, Clean(url)) ELSE q
         IN  Enqueue(q2, Tail(anchors), current, dom, vis)

\* line 95: the loop condition
LoopCondAtMost(q, vis, m) == q # <<>> /\ Cardinality(vis) <= m

\* line 95 without its page cap
LoopCondQueueOnly(q, vis, m) == q # <<>>

LoopCond(q, vis, m) == q # <<>> /\ Cardinality(vis) < m

\* a line of robots.txt: its text before the first colon (the whole line when it has
\* none), whether it has a colon, and the text after it
RobotsLine(key, colon, rest) == [key |-> key, colon |-> colon, rest |-> rest]

\* line 57: line.lower().startswith("disallow")
IsDisallow(line) == line.key \in {"Disallow", "disallow", "DISALLOW", "Disallow /tmp"}

\* lines 56-60 from line k on: [paths, raised]; a Disallow line without a colon makes
\* split(":", 1)[1] raise, which ends the function with the paths appended so far
RECURSIVE RobotsFrom(_, _, _)
RobotsFrom(lines, k, paths) ==
    IF k > Len(lines) THEN paths
    ELSE IF ~IsDisallow(lines[k]) THEN RobotsFrom(lines, k + 1, paths)
    ELSE IF ~lines[k].colon THEN paths
    ELSE RobotsFrom(lines, k + 1,
             IF lines[k].rest # "" THEN Append(paths, lines[k].rest) ELSE paths)

\* whether lines 56-60 raise on these lines
RobotsRaises(lines) == \E k \in 1..Len(lines) : IsDisallow(lines[k]) /\ ~lines[k].colon

\* responses to GET /robots.txt: "error" is a request exception
RobotsBodies ==
    {<<>>,
     <<RobotsLine("User-agent", TRUE, "*"), RobotsLine("Disallow", TRUE, "/private"),
       RobotsLine("disallow", TRUE, ""), RobotsLine("Disallow", TRUE, "/private")>>,
     <<RobotsLine("Disallow", TRUE, "/tmp"), RobotsLine("Disallow /tmp", FALSE, ""),
       RobotsLine("Disallow", TRUE, "/private")>>}

Responses(bodies) ==
    {[kind |-> "error", status |-> 0, body |-> <<>>]}
    \cup {[kind |-> "http", status |-> 404, body |-> <<>>]}
    \cup {[kind |-> "http", status |-> 200, body |-> b] : b \in bodies}

\* responses to GET /sitemap.xml: whether the text holds "<urlset", and its loc texts
SitemapBodies ==
    {<<>>, <<"<urlset", "http://a.test/a", "http://a.test/a", "http://a.test/">>,
     <<"http://a.test/b">>}

HasUrlset(body) == \E k \in 1..Len(body) : body[k] = "<urlset"
IsLoc(t) == t # "<urlset"

\* parse_robots
ParseRobots ==
    /\ cpc = "robots"
    /\ \E r \in Responses(IF site_linked THEN {} ELSE RobotsBodies) :
         /\ robots_paths' = IF r.kind = "http" /\ r.status = 200
                            THEN RobotsFrom(r.body, 1, robots_paths) ELSE robots_paths
         /\ failed' = IF r.kind = "error" \/ (r.status = 200 /\ RobotsRaises(r.body))
                      THEN failed \cup {"robots"} ELSE failed
    /\ cpc' = "sitemap"
    /\ UNCHANGED <<base_url, domain, max_pages, visited, queue, discovered, sitemap_urls,
                   sensitive_hits, sens_i, fetch_log, pops, page, sens_status, report,
                   site_linked>>

\* parse_sitemap
ParseSitemap ==
    /\ cpc = "sitemap"
    /\ \E r \in Responses(IF site_linked THEN {} ELSE SitemapBodies) :
         /\ sitemap_urls' = IF r.kind = "http" /\ r.status = 200 /\ HasUrlset(r.body)
                            THEN sitemap_urls \o SelectSeq(r.body, IsLoc) ELSE sitemap_urls
         /\ failed' = IF r.kind = "error" THEN failed \cup {"sitemap"} ELSE failed
    /\ cpc' = "sensitive"
    /\ UNCHANGED <<base_url, domain, max_pages, visited, queue, discovered, robots_paths,
                   sensitive_hits, sens_i, fetch_log, pops, page, sens_status, report,
                   site_linked>>

MaxSensitiveHits == 1

\* line 81 recording only the paths that answer 200
HitStatusesOnly200 == {200}

\* line 81
HitStatuses == {200, 401, 403}

\* statuses a sensitive path may answer with; 0 stands for a request exception
SensitiveStatuses ==
    IF site_linked THEN {404}
    ELSE IF Len(sensitive_hits) >= MaxSensitiveHits THEN {0, 404}
    ELSE {0, 404, 200, 401, 403}

\* check_sensitive_paths: one iteration of its loop
CheckSensitivePath ==
    /\ cpc = "sensitive"
    /\ sens_i <= Len(COMMON_SENSITIVE_PATHS)
    /\ \E st \in SensitiveStatuses :
         /\ sensitive_hits' =
                IF st \in HitStatuses
                THEN Append(sensitive_hits,
                            [path |-> COMMON_SENSITIVE_PATHS[sens_i], status |-> st])
                ELSE sensitive_hits
         /\ failed' = IF st = 0 THEN failed \cup {"sensitive"} ELSE failed
         /\ sens_status' = st
    /\ sens_i' = sens_i + 1
    /\ cpc' = IF sens_i = Len(COMMON_SENSITIVE_PATHS) THEN "bfs" ELSE "sensitive"
    /\ UNCHANGED <<base_url, domain, max_pages, visited, queue, discovered, robots_paths,
                   sitemap_urls, fetch_log, pops, page, report, site_linked>>

MaxLinks == 2

Href(abs, scheme, netloc, path, query) ==
    [abs |-> abs, scheme |-> scheme, netloc |-> netloc, path |-> path, query |-> query]

\* href values of the anchors a page may hold
Hrefs ==
    {Href(FALSE, "", "", "/a", ""), Href(FALSE, "", "", "/a", "x=1"),
     Href(TRUE, "https", "a.test", "/a", ""), Href(TRUE, "http", "b.test", "/a", "")}

\* what the site may answer to a page request: an exception, a status other than 200,
\* or a page with its anchors in document order
PageOutcomes ==
    {[status |-> 0, anchors |-> <<>>], [status |-> 404, anchors |-> <<>>]}
    \cup {[status |-> 200, anchors |-> a] :
            a \in IF site_linked THEN SeqsUpTo(Hrefs, MaxLinks) ELSE {<<>>}}

\* lines 100-105 with every answered request taken for a page
PageOkAnyStatus(o) == o.status # 0

\* lines 100-105: the request raised no exception and the status is 200
PageOk(o) == o.status = 200

\* lines 95-119: one iteration of the while loop
CrawlStep ==
    /\ cpc = "bfs"
    /\ LoopCond(queue, visited, max_pages)
    /\ pops' = pops + 1
    /\ LET current == Head(queue)
       IN  IF current \in visited
           THEN /\ queue' = Tail(queue)
                /\ UNCHANGED <<visited, discovered, fetch_log, page>>
           ELSE \E o \in PageOutcomes :
                  /\ fetch_log' = Append(fetch_log, [url |-> current, status |-> o.status])
                  /\ IF ~PageOk(o)
                     THEN /\ queue' = Tail(queue)
                          /\ UNCHANGED <<visited, discovered, page>>
                     ELSE /\ visited' = visited \cup {current}
                          /\ discovered' = discovered \cup {current}
                          /\ page' = o.anchors
                          /\ queue' = Enqueue(Tail(queue), o.anchors, current, domain,
                                              visited \cup {current})
    /\ UNCHANGED <<cpc, base_url, domain, max_pages, robots_paths, sitemap_urls,
                   sensitive_hits, sens_i, failed, sens_status, report, site_linked>>

\* ---- the report, lines 121-129

\* the characters of the strings of the model
Chars(s) ==
    CASE s = "" -> <<>>
      [] s = "http" -> <<"h", "t", "t", "p">>
      [] s = "https" -> <<"h", "t", "t", "p", "s">>
      [] s = "a.test" -> <<"a", ".", "t", "e", "s", "t">>
      [] s = "b.test" -> <<"b", ".", "t", "e", "s", "t">>
      [] s = "/" -> <<"/">>
      [] s = "/a" -> <<"/", "a">>
      [] s = "/a/" -> <<"/", "a", "/">>
      [] s = "x=1" -> <<"x", "=", "1">>
      [] s = "/private" -> <<"/", "p", "r", "i", "v", "a", "t", "e">>
      [] s = "/tmp" -> <<"/", "t", "m", "p">>
      [] s = "http://a.test/" ->
            <<"h", "t", "t", "p", ":", "/", "/", "a", ".", "t", "e", "s", "t", "/">>
      [] s = "http://a.test/a" ->
            <<"h", "t", "t", "p", ":", "/", "/", "a", ".", "t", "e", "s", "t", "/", "a">>
      [] s = "http://a.test/b" ->
            <<"h", "t", "t", "p", ":", "/", "/", "a", ".", "t", "e", "s", "t", "/", "b">>

\* ord(c) for the characters of those strings
Ord(c) ==
    CASE c = "." -> 46 [] c = "/" -> 47 [] c = "1" -> 49 [] c = ":" -> 58
      [] c = "=" -> 61 [] c = "?" -> 63 [] c = "a" -> 97 [] c = "b" -> 98
      [] c = "e" -> 101 [] c = "h" -> 104 [] c = "i" -> 105 [] c = "m" -> 109
      [] c = "p" -> 112 [] c = "r" -> 114 [] c = "s" -> 115 [] c = "t" -> 116
      [] c = "v" -> 118 [] c = "x" -> 120

\* the string a URL of the model stands for
UrlText(u) ==
    Chars(u.scheme) \o <<":", "/", "/">> \o Chars(u.netloc) \o Chars(u.path)
    \o (IF u.query = "" THEN <<>> ELSE <<"?">> \o Chars(u.query))

\* a < b for two str values, given by their characters
RECURSIVE TextLT(_, _)
TextLT(a, b) ==
    IF b = <<>> THEN FALSE
    ELSE IF a = <<>> THEN TRUE
    ELSE IF a[1] # b[1] THEN Ord(a[1]) < Ord(b[1])
    ELSE TextLT(Tail(a), Tail(b))

\* set(l) for a list l
ListSet(l) == {l[k] : k \in 1..Len(l)}

\* the values of the model paired with the strings they stand for
UrlStrs(S) == {<<UrlText(u), u>> : u \in S}
Strs(S) == {<<Chars(x), x>> : x \in S}

\* the values of P in descending order of their strings
SortedDescending(P) ==
    LET l == CHOOSE l \in [1..Cardinality(P) -> P] :
                 /\ ListSet(l) = P
                 /\ \A i, j \in 1..Cardinality(P) : i < j => TextLT(l[j][1], l[i][1])
    IN  [k \in 1..Cardinality(P) |-> l[k][2]]

\* sorted(): the values of P in ascending order of their strings
sorted(P) ==
    LET l == CHOOSE l \in [1..Cardinality(P) -> P] :
                 /\ ListSet(l) = P
                 /\ \A i, j \in 1..Cardinality(P) : i < j => TextLT(l[i][1], l[j][1])
    IN  [k \in 1..Cardinality(P) |-> l[k][2]]

\* lines 121-129
Report(base, disc, robots, sitemap, hits) ==
    [base_url |-> base,
     total_urls |-> Cardinality(disc),
     urls |-> sorted(UrlStrs(disc)),
     robots |-> sorted(Strs(ListSet(robots))),
     sitemap |-> sorted(Strs(ListSet(sitemap))),
     sensitive |-> hits]

NoCrawlReport == Report(Url("", "", "", ""), {}, <<>>, <<>>, <<>>)

\* lines 95 and 121: the loop ends and crawl() returns
CrawlReturn ==
    /\ cpc = "bfs"
    /\ ~LoopCond(queue, visited, max_pages)
    /\ cpc' = "done"
    /\ report' = Report(base_url, discovered, robots_paths, sitemap_urls, sensitive_hits)
    /\ UNCHANGED <<base_url, domain, max_pages, visited, queue, discovered, robots_paths,
                   sitemap_urls, sensitive_hits, sens_i, failed, fetch_log, pops, page,
                   sens_status, site_linked>>

\* ------------------------------------------------------------------ inputs of a crawl

BaseInputs ==
    {Url("", "a.test", "", ""), Url("http", "a.test", "/", ""),
     Url("https", "a.test", "/a", "x=1")}

MaxPagesInputs == {0, 1, 2, 3}

CrawlIdle ==
    /\ cpc = "idle"
    /\ base_url = Url("", "", "", "")
    /\ domain = ""
    /\ max_pages = 0
    /\ visited = {}
    /\ queue = <<>>
    /\ discovered = {}
    /\ robots_paths = <<>>
    /\ sitemap_urls = <<>>
    /\ sensitive_hits = <<>>
    /\ sens_i = 1
    /\ failed = {}
    /\ fetch_log = <<>>
    /\ pops = 0
    /\ sens_status = -1
    /\ page = <<>>
    /\ report = NoCrawlReport
    /\ site_linked = FALSE

\* a CrawlEye just constructed (__init__, lines 30-44), crawl() about to run
CrawlInit ==
    /\ cpc = "robots"
    /\ \E b \in BaseInputs :
         /\ base_url = BaseUrlOf(b)
         /\ domain = BaseUrlOf(b).netloc
         /\ queue = <<BaseUrlOf(b)>>
    /\ max_pages \in MaxPagesInputs
    /\ visited = {}
    /\ discovered = {}
    /\ robots_paths = <<>>
    /\ sitemap_urls = <<>>
    /\ sensitive_hits = <<>>
    /\ sens_i = 1
    /\ failed = {}
    /\ fetch_log = <<>>
    /\ pops = 0
    /\ sens_status = -1
    /\ page = <<>>
    /\ report = NoCrawlReport
    /\ site_linked \in BOOLEAN

\* ------------------------------------------------------------------ inputs of the sanitizer

MaxBase == 3
MaxReps == 11

RawValues ==
    {IntVal(0), IntVal(1), IntVal(65535), IntVal(65536), FloatVal(229),
     StrVal(<<" ", "8", "0">>), StrVal(<<"-", "7">>), NoneVal}

\* None, and the lists made of a short list of raw values repeated
SanitizeInputs ==
    {NoList} \cup {List(Repeat(b, n)) : b \in SeqsUpTo(RawValues, MaxBase), n \in 1..MaxReps}

\* a BannerHunter about to be constructed on a port list of SanitizeInputs
SanitizeInit ==
    /\ pc = "new"
    /\ target = IpA
    /\ ports_arg \in SanitizeInputs
    /\ timeout = DEFAULT_TIMEOUT
    /\ unreachable = TRUE
    /\ ports = <<>>
    /\ out = EmptyOut
    /\ ip_list = <<>>
    /\ ip_i = 1
    /\ port_i = 1
    /\ res = NewRes("", 0)
    /\ data = <<>>
    /\ sock = "none"
    /\ open_sockets = 0
    /\ connects = 0
    /\ conn_ok = FALSE
    /\ io = <<>>
    /\ dns_lookups = 0
    /\ net = <<>>

\* ------------------------------------------------------------------ concurrent scans

Hunters == {1, 2}

\* the list objects of the program
ListIds == {"DEFAULT_PORTS", "ports1", "ports2"}
OwnList(h) == IF h = 1 THEN "ports1" ELSE "ports2"

\* _sanitize_ports handing out the module's DEFAULT_PORTS object itself when it falls back
PortsObjectSharesDefault(h, port_list) ==
    IF _sanitize_ports(port_list) = DEFAULT_PORTS THEN "DEFAULT_PORTS" ELSE OwnList(h)

\* the list object _sanitize_ports returns to hunter h: a new list in every case,
\* DEFAULT_PORTS.copy() at lines 29 and 40, cleaned otherwise
PortsObject(h, port_list) == OwnList(h)

\* what the hosts of this scenario answer, the same to every probe of a pair: 10.0.0.5
\* refuses every connect, 192.0.2.1 sends an SSH banner on 22, accepts and stays
\* silent on 80, and refuses the other ports
PeerAnswer(ip, port) ==
    IF ip = IpA /\ port = 22 THEN [connected |-> TRUE, d |-> BannerSSH]
    ELSE IF ip = IpA /\ port = 80 THEN [connected |-> TRUE, d |-> <<>>]
    ELSE [connected |-> FALSE, d |-> <<>>]

\* grab_banner(ip, port) against those hosts
GrabOutcome(ip, port) ==
    IF PeerAnswer(ip, port).connected
    THEN FinishRes(NewRes(ip, port), Recv(PeerAnswer(ip, port).d))
    ELSE FailRes(NewRes(ip, port), "Connection refused")

HunterTargets == {IpA, IpB}

\* grab_banner for every address and port of this scenario
GrabTable ==
    [ip \in HunterTargets, port \in {DEFAULT_PORTS[k] : k \in 1..Len(DEFAULT_PORTS)} \cup {8080} |->
        GrabOutcome(ip, port)]

NewHunter(t, a) ==
    [pc |-> "new", target |-> t, arg |-> a, ref |-> "DEFAULT_PORTS", own |-> <<>>,
     edited |-> FALSE, ips |-> <<>>, ip_i |-> 1, port_i |-> 1, entries |-> <<>>]

\* BannerHunter.__init__ of hunter h
HunterConstruct(h) ==
    /\ hunters[h].pc = "new"
    /\ LET id == PortsObject(h, hunters[h].arg)
           l == _sanitize_ports(hunters[h].arg)
       IN  /\ heap' = [heap EXCEPT ![id] = l]
           /\ hunters' = [hunters EXCEPT ![h].pc = "ready",
                                         ![h].target = StripTarget(hunters[h].target),
                                         ![h].ref = id, ![h].own = l]



\* the owner of hunter h appends a port to hunter.ports before scanning; own is the
\* list as its owner made it
HunterEditPorts(h) ==
    /\ hunters[h].pc = "ready"
    /\ ~hunters[h].edited
    /\ heap' = [heap EXCEPT ![hunters[h].ref] = Append(@, 8080)]
    /\ hunters' = [hunters EXCEPT ![h].edited = TRUE,
                                  ![h].own = Append(@, 8080)]

\* scan() of hunter h, lines 148-159
HunterResolve(h) ==
    /\ hunters[h].pc = "ready"
    /\ \E resolved \in resolve(hunters[h].target) :
         LET ips == IpListOf(resolved, hunters[h].target)
         IN  hunters' = [hunters EXCEPT ![h].ips = ips, ![h].ip_i = 1, ![h].port_i = 1,
                                       ![h].entries = <<>>,
                                       ![h].pc = IF ips = <<>> THEN "done" ELSE "loop"]
    /\ UNCHANGED heap

\* scan() of hunter h, lines 161-164: one grab_banner call and its entry; the for loop
\* reads the list self.ports refers to at every iteration
HunterGrab(h) ==
    /\ hunters[h].pc = "loop"
    /\ LET me == hunters[h]
           ps == heap[me.ref]
           e == GrabTable[me.ips[me.ip_i], ps[me.port_i]]
           nxt == NextPos(me.ip_i, me.port_i, Len(ps))
       IN  hunters' = [hunters EXCEPT ![h].entries = Collect(me.entries, e),
                                     ![h].ip_i = nxt[1], ![h].port_i = nxt[2],
                                     ![h].pc = IF nxt[1] > Len(me.ips) THEN "done" ELSE "loop"]
    /\ UNCHANGED heap

InitialHeap == [id \in ListIds |-> IF id = "DEFAULT_PORTS" THEN DEFAULT_PORTS ELSE <<>>]

HunterPorts == {NoList, List(<<IntVal(22)>>), List(<<IntVal(80), IntVal(22)>>),
                List(<<StrVal(<<"a", "b", "c">>)>>)}

HuntersIdle ==
    /\ heap = InitialHeap
    /\ hunters = [h \in Hunters |-> [NewHunter("", NoList) EXCEPT !.pc = "idle"]]

\* two requests have each a BannerHunter to construct
HuntersInit ==
    /\ heap = InitialHeap
    /\ hunters \in [Hunters -> {NewHunter(t, a) : t \in HunterTargets, a \in HunterPorts}]

\* ------------------------------------------------------------------ the history log

MaxRequests == 3
Requests == 1..MaxRequests

\* the event request r logs (lines 62-69, without the timestamp)
Event(r) ==
    [module |-> "Reconnaissance", tool |-> "BannerHunter", target |-> r,
     severity |-> "Medium", message |-> "Service banners collected"]

OldEvent == [Event(0) EXCEPT !.tool = "CrawlEye"]

\* load_logs, called at line 61: the list in the file, [] when the file cannot be decoded
load_logs(r) ==
    /\ requests[r].pc = "start"
    /\ requests' = [requests EXCEPT ![r].pc = "loaded",
                                    ![r].logs = IF log_file.valid THEN log_file.events
                                                ELSE <<>>]
    /\ UNCHANGED log_file

\* line 62 and save_logs, line 57: logs.insert(0, event), then open(LOG_FILE, "w")
\* truncates the file
save_logs_open(r) ==
    /\ requests[r].pc = "loaded"
    /\ requests' = [requests EXCEPT ![r].pc = "writing",
                                    ![r].logs = <<Event(r)>> \o requests[r].logs]
    /\ log_file' = [valid |-> FALSE, events |-> <<>>]

\* save_logs, line 58: json.dump(logs, f) and the file is closed
save_logs_dump(r) ==
    /\ requests[r].pc = "writing"
    /\ requests' = [requests EXCEPT ![r].pc = "done"]
    /\ log_file' = [valid |-> TRUE, events |-> requests[r].logs]

LogIdle ==
    /\ log_file = [valid |-> TRUE, events |-> <<>>]
    /\ requests = [r \in Requests |-> [pc |-> "idle", logs |-> <<>>]]

\* requests about to call add_log, the log file absent (as empty) or holding an event
LogInit ==
    /\ log_file \in {[valid |-> TRUE, events |-> e] : e \in {<<>>, <<OldEvent>>}}
    /\ requests = [r \in Requests |-> [pc |-> "start", logs |-> <<>>]]

\* ------------------------------------------------------------------ specifications

\* one BannerHunter scan
Init == ScanInit /\ CallerIdle /\ FpIdle /\ CrawlIdle /\ HuntersIdle /\ LogIdle
Next ==
    \/ Construct /\ UNCHANGED <<callerVars, fpVars, crawlVars, concVars, logVars>>
    \/ ScanResolve /\ UNCHANGED <<callerVars, fpVars, crawlVars, concVars, logVars>>
    \/ GrabOpen /\ UNCHANGED <<callerVars, fpVars, crawlVars, concVars, logVars>>
    \/ GrabConnect /\ UNCHANGED <<callerVars, fpVars, crawlVars, concVars, logVars>>
    \/ GrabRecv1 /\ UNCHANGED <<callerVars, fpVars, crawlVars, concVars, logVars>>
    \/ GrabProbe /\ UNCHANGED <<callerVars, fpVars, crawlVars, concVars, logVars>>
    \/ GrabRecv2 /\ UNCHANGED <<callerVars, fpVars, crawlVars, concVars, logVars>>
    \/ GrabFinish /\ UNCHANGED <<callerVars, fpVars, crawlVars, concVars, logVars>>
Spec == Init /\ [][Next]_vars

\* a BannerHunter whose scan() is called twice
InitRescan == RescanInit /\ CallerIdle /\ FpIdle /\ CrawlIdle /\ HuntersIdle /\ LogIdle
NextRescan ==
    \/ Construct /\ UNCHANGED <<callerVars, fpVars, crawlVars, concVars, logVars>>
    \/ ScanResolve /\ UNCHANGED <<callerVars, fpVars, crawlVars, concVars, logVars>>
    \/ GrabOpen /\ UNCHANGED <<callerVars, fpVars, crawlVars, concVars, logVars>>
    \/ GrabConnect /\ UNCHANGED <<callerVars, fpVars, crawlVars, concVars, logVars>>
    \/ GrabRecv1 /\ UNCHANGED <<callerVars, fpVars, crawlVars, concVars, logVars>>
    \/ GrabProbe /\ UNCHANGED <<callerVars, fpVars, crawlVars, concVars, logVars>>
    \/ GrabRecv2 /\ UNCHANGED <<callerVars, fpVars, crawlVars, concVars, logVars>>
    \/ GrabFinish /\ UNCHANGED <<callerVars, fpVars, crawlVars, concVars, logVars>>
    \/ ScanAgain /\ UNCHANGED <<fpVars, crawlVars, concVars, logVars>>
SpecRescan == InitRescan /\ [][NextRescan]_vars

\* one POST request to /bannerhunter, from the form to the report
InitRequest == RequestInit /\ FpIdle /\ CrawlIdle /\ HuntersIdle /\ LogIdle
NextRequest ==
    \/ bannerhunter /\ UNCHANGED <<fpVars, crawlVars, concVars, logVars>>
    \/ Construct /\ UNCHANGED <<callerVars, fpVars, crawlVars, concVars, logVars>>
    \/ ScanResolve /\ UNCHANGED <<callerVars, fpVars, crawlVars, concVars, logVars>>
    \/ GrabOpen /\ UNCHANGED <<callerVars, fpVars, crawlVars, concVars, logVars>>
    \/ GrabConnect /\ UNCHANGED <<callerVars, fpVars, crawlVars, concVars, logVars>>
    \/ GrabRecv1 /\ UNCHANGED <<callerVars, fpVars, crawlVars, concVars, logVars>>
    \/ GrabProbe /\ UNCHANGED <<callerVars, fpVars, crawlVars, concVars, logVars>>
    \/ GrabRecv2 /\ UNCHANGED <<callerVars, fpVars, crawlVars, concVars, logVars>>
    \/ GrabFinish /\ UNCHANGED <<callerVars, fpVars, crawlVars, concVars, logVars>>
SpecRequest == InitRequest /\ [][NextRequest]_vars

\* two BannerHunter scans interleaved
InitConcurrent == ScanIdle /\ CallerIdle /\ FpIdle /\ CrawlIdle /\ HuntersInit /\ LogIdle
NextConcurrent ==
    \/ \E h \in Hunters : HunterConstruct(h)
           /\ UNCHANGED <<scanVars, callerVars, fpVars, crawlVars, logVars>>
    \/ \E h \in Hunters : HunterEditPorts(h)
           /\ UNCHANGED <<scanVars, callerVars, fpVars, crawlVars, logVars>>
    \/ \E h \in Hunters : HunterResolve(h)
           /\ UNCHANGED <<scanVars, callerVars, fpVars, crawlVars, logVars>>
    \/ \E h \in Hunters : HunterGrab(h)
           /\ UNCHANGED <<scanVars, callerVars, fpVars, crawlVars, logVars>>
SpecConcurrent == InitConcurrent /\ [][NextConcurrent]_vars

\* add_log called by concurrently handled requests
InitLog == ScanIdle /\ CallerIdle /\ FpIdle /\ CrawlIdle /\ HuntersIdle /\ LogInit
NextLog ==
    \/ \E r \in Requests : load_logs(r)
           /\ UNCHANGED <<scanVars, callerVars, fpVars, crawlVars, concVars>>
    \/ \E r \in Requests : save_logs_open(r)
           /\ UNCHANGED <<scanVars, callerVars, fpVars, crawlVars, concVars>>
    \/ \E r \in Requests : save_logs_dump(r)
           /\ UNCHANGED <<scanVars, callerVars, fpVars, crawlVars, concVars>>
SpecLog == InitLog /\ [][NextLog]_vars

\* the constructor, with _sanitize_ports, on the port lists of SanitizeInputs
InitSanitize == SanitizeInit /\ CallerIdle /\ FpIdle /\ CrawlIdle /\ HuntersIdle /\ LogIdle
NextSanitize == Construct /\ UNCHANGED <<callerVars, fpVars, crawlVars, concVars, logVars>>
SpecSanitize == InitSanitize /\ [][NextSanitize]_vars

\* _fingerprint on the banners of BannerInputs
InitFingerprint == ScanIdle /\ CallerIdle /\ FpInit /\ CrawlIdle /\ HuntersIdle /\ LogIdle
NextFingerprint == Fingerprint /\ UNCHANGED <<scanVars, callerVars, crawlVars, concVars, logVars>>
SpecFingerprint == InitFingerprint /\ [][NextFingerprint]_vars

\* one crawl
InitCrawl == ScanIdle /\ CallerIdle /\ FpIdle /\ CrawlInit /\ HuntersIdle /\ LogIdle
NextCrawl ==
    \/ ParseRobots /\ UNCHANGED <<scanVars, callerVars, fpVars, concVars, logVars>>
    \/ ParseSitemap /\ UNCHANGED <<scanVars, callerVars, fpVars, concVars, logVars>>
    \/ CheckSensitivePath /\ UNCHANGED <<scanVars, callerVars, fpVars, concVars, logVars>>
    \/ CrawlStep /\ UNCHANGED <<scanVars, callerVars, fpVars, concVars, logVars>>
    \/ CrawlReturn /\ UNCHANGED <<scanVars, callerVars, fpVars, concVars, logVars>>
SpecCrawl == InitCrawl /\ [][NextCrawl]_vars

\* one crawl whose thread keeps running: every request of crawl() carries
\* timeout=self.timeout, so each step of it ends and the next one is taken
SpecCrawlLive == InitCrawl /\ [][NextCrawl]_vars /\ WF_vars(NextCrawl)

\* ------------------------------------------------------------------ properties

\* grab_banner has returned to scan(): res is the entry it returned, and connects,
\* conn_ok and io tell what that call did
Returned == pc \in {"loop", "done"} /\ out.entries # <<>>

\* C1: when scan() has returned, the report holds len(resolved ips) * len(sanitized
\* ports) entries; that is 0 entries when the resolution gave no address.
C1_EntryCount ==
    pc = "done" => Len(out.entries) = Len(out.dns.ips) * Len(ports)

C1_Witness ==
    /\ pc = "done"
    /\ Len(out.dns.ips) = 2
    /\ Len(ports) = 2
    /\ Len(out.entries) = 4
    /\ ~out.entries[1].success
    /\ out.entries[4].success

\* C2: the entries stand in IP-major order, the k-th (from 0) for ips[k div n] and
\* ports[k mod n], at every point of the scan; a failed probe stops nothing: when
\* scan() has returned after resolving an address, every pair has its entry.
C2_IpMajorOrder ==
    /\ \A k \in 1..Len(out.entries) :
         /\ out.entries[k].ip = out.dns.ips[((k - 1) \div Len(ports)) + 1]
         /\ out.entries[k].port = ports[((k - 1) % Len(ports)) + 1]
    /\ pc = "done" =>
         \A i \in 1..Len(out.dns.ips) : \A j \in 1..Len(ports) :
            /\ (i - 1) * Len(ports) + j <= Len(out.entries)
            /\ out.entries[(i - 1) * Len(ports) + j].ip = out.dns.ips[i]
            /\ out.entries[(i - 1) * Len(ports) + j].port = ports[j]

C2_Witness ==
    /\ pc = "done"
    /\ Len(out.entries) = 4
    /\ ~out.entries[1].success
    /\ ~out.entries[2].success
    /\ out.entries[3].success
    /\ out.entries[2].ip # out.entries[3].ip
    /\ out.entries[3].port # out.entries[4].port

\* the values of a list that convert to an integer in [1, 65535], converted, in order
C3_Converts(p) == IntOf(p).ok /\ 1 <= IntOf(p).v /\ IntOf(p).v <= 65535
C3_Valid(l) ==
    LET sel == SelectSeq(l, C3_Converts) IN [k \in 1..Len(sel) |-> IntOf(sel[k]).v]

\* C3: _sanitize_ports returns the first 20 values of the input that convert to an
\* integer in [1, 65535], in input order with duplicates kept, and the default list when
\* the input is None, empty or without such a value; so at most 20 ports, each in range.
C3_Sanitized ==
    pc = "ready" =>
        LET v == IF ports_arg.some THEN C3_Valid(ports_arg.val) ELSE <<>>
        IN  /\ ports = IF v = <<>>
                       THEN <<21, 22, 23, 25, 80, 110, 143, 443, 3306, 5432>>
                       ELSE SubSeq(v, 1, Min(20, Len(v)))
            /\ Len(ports) <= 20
            /\ \A k \in 1..Len(ports) : 1 <= ports[k] /\ ports[k] <= 65535

C3_Witness ==
    /\ pc = "ready"
    /\ ports_arg.some
    /\ Len(C3_Valid(ports_arg.val)) > 20
    /\ Len(C3_Valid(ports_arg.val)) < Len(ports_arg.val)
    /\ Len(ports) = 20
    /\ ports[1] = ports[3]
    /\ ports[1] # ports[2]

\* what every failed attempt returns
C4_FailureShape ==
    /\ res.error # None
    /\ res.raw = <<>>
    /\ res.product = None
    /\ res.version = NoneText
    /\ res.risk = "unknown"

\* C4 as stated: exactly one connect attempt for every attempt, success exactly when
\* that connect succeeded, and the failure result when it failed.
C4_ExactlyOneConnect ==
    Returned =>
        /\ res = Last(out.entries)
        /\ connects = 1
        /\ res.success <=> conn_ok
        /\ ~conn_ok => ~res.success /\ C4_FailureShape

\* C4, amended: at most one connect attempt, and exactly one unless creating the socket
\* or setting its timeout failed before the connect; success exactly when a connect was
\* made and succeeded, whatever the reads and the probe send did; every other attempt
\* returns success=false with the error text, an empty raw banner, no product, no
\* version and risk "unknown".
C4_AtMostOneConnect ==
    Returned =>
        /\ res = Last(out.entries)
        /\ connects <= 1
        /\ connects = 0 =>
              res.error \in {"Too many open files", "Timeout value out of range"}
        /\ res.success <=> (connects = 1 /\ conn_ok)
        /\ res.success => res.error = None
        /\ ~res.success => C4_FailureShape

C4_Witness ==
    /\ Returned
    /\ connects = 1
    /\ conn_ok
    /\ res.success
    /\ res.raw = <<>>
    /\ io = <<"connect", "recv:none", "send:error", "recv:none">>

\* C5: in one grab_banner call a probe is sent only after a first read that gave no
\* bytes, at most one probe and at most two reads; the probe is the HTTP HEAD request on
\* ports 80, 8080, 8000, 8888 and the bare line terminator on every other port; after a
\* first read that gave bytes there is no probe and no second read.
C5_ProbeDiscipline ==
    LET sends == {k \in 1..Len(io) : io[k] \notin {"connect", "recv:bytes", "recv:none"}}
        recvs == {k \in 1..Len(io) : io[k] \in {"recv:bytes", "recv:none"}}
        probe == IF res.port \in {80, 8080, 8000, 8888}
                 THEN "HEAD / HTTP/1.0 Host: example" ELSE "CRLF"
    IN  /\ Cardinality(sends) <= 1
        /\ Cardinality(recvs) <= 2
        /\ \A k \in sends :
             /\ k = 3
             /\ io[1] = "connect"
             /\ io[2] = "recv:none"
             /\ io[k] \in {probe, "send:error"}
        /\ \A k \in recvs : k > 2 => k = 4 /\ 3 \in sends
        /\ (Len(io) >= 2 /\ io[2] = "recv:bytes") => Len(io) = 2

C5_Witness ==
    /\ res.port = 8080
    /\ io = <<"connect", "recv:none", "HEAD / HTTP/1.0 Host: example", "recv:bytes">>
    /\ Returned

\* C6: whenever grab_banner is not running (it has returned, or scan() has), no socket
\* is open: the socket of every attempt was closed on the path the attempt took.
C6_SocketReleased ==
    pc \in {"loop", "done"} => open_sockets = 0 /\ sock # "open"

C6_Witness ==
    /\ pc = "done"
    /\ Len(out.entries) >= 3
    /\ out.entries[1].error = "Connection refused"
    /\ out.entries[2].success
    /\ out.entries[3].error = "Too many open files"
    /\ open_sockets = 0

\* the rules of the table whose pattern is found in the cleaned banner
MatchingRules == {k \in 1..Len(FINGERPRINTS) : Search(Strip(banner), FINGERPRINTS[k]).found}

\* C7: _fingerprint answers with the product, version and risk of the matching rule that
\* comes earliest in the table, wherever in the banner the rules match, and with
\* (None, None, "unknown") when no rule matches.
C7_EarliestRuleWins ==
    fp.called =>
        IF MatchingRules = {}
        THEN fp.r = [product |-> None, version |-> NoneText, risk |-> "unknown"]
        ELSE LET rule == FINGERPRINTS[Least(MatchingRules)]
                 m == Search(Strip(banner), rule)
             IN  /\ fp.r.product = rule.product
                 /\ fp.r.version = NormalizeVersion(SubSeq(Strip(banner), m.gs, m.ge - 1))
                 /\ fp.r.risk = RiskOf(fp.r.version, rule.threshold)

\* a banner that matches rule 2 (nginx) first in the text and rule 1 (Apache) after it
C7_Witness ==
    /\ fp.called
    /\ MatchingRules = {1, 2}
    /\ Search(Strip(banner), FINGERPRINTS[2]).gs < Search(Strip(banner), FINGERPRINTS[1]).gs
    /\ fp.r.product = "Apache HTTPD"

\* a <= b for release tuples, segment by segment as numbers, a missing segment being 0
C8_SegmentwiseLE(a, b) ==
    \/ \A k \in 1..(Len(a) + Len(b)) : Seg(a, k) = Seg(b, k)
    \/ \E k \in 1..(Len(a) + Len(b)) :
         /\ Seg(a, k) < Seg(b, k)
         /\ \A j \in 1..(k - 1) : Seg(a, j) = Seg(b, j)

\* C8: when the first matching rule has a threshold, the risk is "potentially_outdated"
\* exactly when the normalized version is <= the threshold segment by segment, and "ok"
\* otherwise; it is "unknown" for a rule without threshold and when a version does not
\* parse.
C8_RiskByThreshold ==
    (fp.called /\ MatchingRules # {}) =>
        LET rule == FINGERPRINTS[Least(MatchingRules)]
            v == parse_version(fp.r.version)
            t == parse_version(rule.threshold)
        IN  IF rule.threshold = NoneText \/ ~v.ok \/ ~t.ok
            THEN fp.r.risk = "unknown"
            ELSE /\ fp.r.risk \in {"potentially_outdated", "ok"}
                 /\ fp.r.risk = "potentially_outdated" <=>
                        C8_SegmentwiseLE(v.release, t.release)

\* nginx 1.19 against the threshold 1.19.0
C8_Witness ==
    /\ fp.called
    /\ fp.r.product = "nginx"
    /\ fp.r.version = <<"1", ".", "1", "9">>
    /\ fp.r.risk = "potentially_outdated"

\* the version an OpenSSH capture advertises: major.minor, the text before a "p" suffix
RECURSIVE C9_BeforeP(_)
C9_BeforeP(s) ==
    IF s = <<>> \/ s[1] = "p" THEN <<>> ELSE <<s[1]>> \o C9_BeforeP(Tail(s))

\* C9 as stated: a banner fingerprinted by the OpenSSH rule gets risk
\* "potentially_outdated" when it advertises a version at or below 7.6, with or without
\* a portable suffix, and "ok" when it advertises a later one.
C9_OpenSSHRisk ==
    (fp.called /\ MatchingRules # {} /\ Least(MatchingRules) = 3) =>
        LET m == Search(Strip(banner), FINGERPRINTS[3])
            advertised == parse_version(C9_BeforeP(SubSeq(Strip(banner), m.gs, m.ge - 1)))
        IN  /\ fp.r.product = "OpenSSH"
            /\ fp.r.risk = IF C8_SegmentwiseLE(advertised.release, <<7, 6>>)
                           THEN "potentially_outdated" ELSE "ok"

\* C10: the visited set never holds more than max_pages URLs.
C10_VisitedBounded == Cardinality(visited) <= max_pages

\* max_pages = 1, a seed page with two same-origin links: one URL visited, the links
\* left in the queue
C10_Witness ==
    /\ cpc = "done"
    /\ max_pages = 1
    /\ Cardinality(visited) = 1
    /\ Len(queue) = 2

\* C11: every URL in the crawl queue has the scheme and the host of the base URL.
C11_SameOrigin ==
    \A k \in 1..Len(queue) :
        queue[k].scheme = base_url.scheme /\ queue[k].netloc = base_url.netloc

\* scan() has called resolve(): out.dns holds what it returned
Resolved == pc \in {"loop", "g_connect", "g_recv1", "g_probe", "g_recv2", "g_finish", "done"}

\* C12: for a target that is a literal IPv4 address, resolve() returns that address as
\* the only one, with no aliases and no error, and no DNS lookup was made.
C12_LiteralShortCircuit ==
    (Resolved /\ target \in IpLiterals) =>
        /\ out.dns.error = None
        /\ out.dns.hostname = target
        /\ out.dns.ips = <<target>>
        /\ out.dns.aliases = <<>>
        /\ dns_lookups = 0

\* the scan of " 192.0.2.1 " has returned: resolved to 192.0.2.1 alone, no lookup
C12_Witness ==
    /\ pc = "done"
    /\ target = IpA
    /\ out.dns.ips = <<IpA>>
    /\ dns_lookups = 0
    /\ Len(out.entries) = Len(ports)

\* C13: when the DNS lookup fails, resolve() returns an error result with the reason
\* text, and scan() returns at once: no entry, the note "no-resolvable-ip", no socket
\* opened and no connect attempted.
C13_ResolutionFailure ==
    (Resolved /\ out.dns.error # None) =>
        /\ out.dns.error = "DNS resolution failed: Name or service not known"
        /\ pc = "done"
        /\ out.entries = <<>>
        /\ out.note = "no-resolvable-ip"
        /\ ip_list = <<>>
        /\ sock = "none"
        /\ open_sockets = 0
        /\ connects = 0
        /\ io = <<>>

\* the lookup of host.test failed and scan() has returned
C13_Witness ==
    /\ pc = "done"
    /\ target = "host.test"
    /\ dns_lookups = 1
    /\ out.dns.error # None
    /\ out.note = "no-resolvable-ip"
    /\ out.entries = <<>>

\* C14: for a literal-IP target on which every connect fails, scan() returns a report
\* with one resolved IP and one entry per sanitized port (10 for the default ports),
\* every entry with success = false.
C14_UnreachableReport ==
    (pc = "done" /\ unreachable /\ target \in IpLiterals) =>
        /\ Len(out.dns.ips) = 1
        /\ Len(out.entries) = Len(ports)
        /\ ports_arg = NoList => Len(out.entries) = 10
        /\ \A k \in 1..Len(out.entries) :
               /\ ~out.entries[k].success
               /\ out.entries[k].ip = target
               /\ out.entries[k].port = ports[k]
               /\ out.entries[k].error # None

\* 192.0.2.1 with the default ports: ten entries, each with a refused connect
C14_Witness ==
    /\ pc = "done"
    /\ unreachable
    /\ target = IpA
    /\ ports_arg = NoList
    /\ Len(out.entries) = 10
    /\ \A k \in 1..10 : out.entries[k].error = "Connection refused"

\* C15: when a second scan() of the same object has returned and the network answered
\* as it did during the first (the same resolution, the same connect outcomes and the
\* same bytes for every probe), its entries are those of the first report; the object's
\* target, ports and timeout are what the constructor set, and no socket is left open.
C15_Idempotent ==
    (first.done /\ pc = "done" /\ out.dns = first.dns /\ net = first.net) =>
        /\ out.entries = first.entries
        /\ ports = _sanitize_ports(ports_arg)
        /\ open_sockets = 0

\* two scans of an unreachable 192.0.2.1, each with a refused connect per default port
C15_Witness ==
    /\ first.done
    /\ pc = "done"
    /\ unreachable
    /\ target = IpA
    /\ net = first.net
    /\ Len(first.entries) = 10
    /\ Len(out.entries) = 10
    /\ out.entries[10].error = "Connection refused"

\* C19: a request whose target is empty or blank is rejected before the scan begins:
\* no BannerHunter is constructed for it, no DNS lookup is made and nothing is probed.
C19_EmptyTargetRejected ==
    (pc # "request" /\ StripTarget(form.target) = "") =>
        /\ pc \notin {"new", "ready", "loop", "g_connect", "g_recv1", "g_probe",
                      "g_recv2", "g_finish"}
        /\ dns_lookups = 0
        /\ out.entries = <<>>

\* C20: a request whose ports field holds malformed values never fails: the view does
\* not raise.
C20_MalformedPortsDiscarded == pc # "raised"

\* C16: a pre-BFS phase that swallowed an exception contributes an empty result: when
\* parse_robots failed the report has no robots path, when parse_sitemap failed it has
\* no sitemap URL; and the crawl went on to its report all the same.
C16_FailedPhaseEmpty ==
    cpc = "done" =>
        /\ "robots" \in failed => report.robots = <<>>
        /\ "sitemap" \in failed => report.sitemap = <<>>

\* C17: a page request of the BFS that raises or answers with a status other than 200
\* leaves visited and discovered as they were and takes only the requested URL off the
\* queue, with no link appended; the loop goes on with the rest of the queue.
C17_FailedFetchSkipped ==
    [][(Len(fetch_log') = Len(fetch_log) + 1 /\ Last(fetch_log').status # 200) =>
          /\ Last(fetch_log').url = Head(queue)
          /\ visited' = visited
          /\ discovered' = discovered
          /\ queue' = Tail(queue)
          /\ Last(fetch_log').url \notin visited'
          /\ cpc' = "bfs"]_vars

\* the seed page links to two URLs; the request for the first answers 404 and the crawl
\* goes on to fetch the second
C17_Witness ==
    /\ cpc = "done"
    /\ Len(fetch_log) = 3
    /\ fetch_log[1].status = 200
    /\ fetch_log[2].status = 404
    /\ fetch_log[3].status = 200
    /\ fetch_log[2].url \notin visited
    /\ fetch_log[2].url \notin ListSet(report.urls)
    /\ Cardinality(visited) = 2

\* C18: in the report crawl() returns, total_urls is the length of urls; urls holds
\* exactly the visited URLs, which are exactly the URLs whose request answered 200, in
\* ascending order of their text; robots and sitemap hold the paths and URLs collected,
\* in ascending order without duplicates.
C18_Ascending(texts) == \A i, j \in 1..Len(texts) : i < j => TextLT(texts[i], texts[j])
C18_ReportLists ==
    cpc = "done" =>
        /\ report.total_urls = Len(report.urls)
        /\ ListSet(report.urls) = visited
        /\ ListSet(report.urls) =
               {fetch_log[k].url : k \in {i \in 1..Len(fetch_log) : fetch_log[i].status = 200}}
        /\ C18_Ascending([k \in 1..Len(report.urls) |-> UrlText(report.urls[k])])
        /\ ListSet(report.robots) = ListSet(robots_paths)
        /\ C18_Ascending([k \in 1..Len(report.robots) |-> Chars(report.robots[k])])
        /\ ListSet(report.sitemap) = ListSet(sitemap_urls)
        /\ C18_Ascending([k \in 1..Len(report.sitemap) |-> Chars(report.sitemap[k])])

\* two pages visited and reported, the one fetched second standing first in the list
C18_Witness ==
    /\ cpc = "done"
    /\ Len(report.urls) = 2
    /\ report.urls[1] # fetch_log[1].url
    /\ report.total_urls = 2

\* a crawl whose robots.txt and sitemap.xml list an entry twice
C18_WitnessDuplicates ==
    /\ cpc = "done"
    /\ Len(robots_paths) = 2
    /\ Len(report.robots) = 1
    /\ Len(sitemap_urls) = 3
    /\ report.sitemap = <<"http://a.test/", "http://a.test/a">>

\* the scan stands before a step that is a local computation or a socket operation
\* under s.settimeout(self.timeout): the constructor, every step of grab_banner, and
\* resolve() when line 57 short-cuts; socket.gethostbyname_ex (line 60) takes no timeout
C21_AtTimedStep ==
    \/ pc \in {"new", "loop", "g_connect", "g_recv1", "g_probe", "g_recv2", "g_finish"}
    \/ pc = "ready" /\ _looks_like_ip(target)

\* C21: until scan() has returned, the step it stands before is a local computation or a
\* network operation that carries a timeout, so that it cannot wait without bound.
C21_EveryWaitTimed == pc # "done" => C21_AtTimedStep

\* the report hunter-alone scanning: one entry per pair, IP-major
C22_AloneEntries(ips, ps) ==
    [k \in 1..(Len(ips) * Len(ps)) |->
        GrabTable[ips[((k - 1) \div Len(ps)) + 1], ps[((k - 1) % Len(ps)) + 1]]]

\* C22: however two scans interleave, the module's default port list is never changed,
\* the list a hunter's self.ports refers to holds what its constructor and its owner
\* put there, and a scan that has returned holds the entries it has when running alone.
C22_Independent ==
    /\ heap["DEFAULT_PORTS"] = DEFAULT_PORTS
    /\ \A h \in Hunters :
           /\ hunters[h].pc \in {"ready", "loop", "done"} => heap[hunters[h].ref] = hunters[h].own
           /\ hunters[h].pc = "done" =>
                  hunters[h].entries = C22_AloneEntries(hunters[h].ips, hunters[h].own)

\* both hunters got the default ports; the first one's owner appended a port to it: it
\* returned 11 entries, the other 10
C22_Witness ==
    /\ hunters[1].pc = "done"
    /\ hunters[2].pc = "done"
    /\ hunters[1].arg = NoList
    /\ hunters[2].arg = NoList
    /\ hunters[1].edited
    /\ ~hunters[2].edited
    /\ Len(hunters[1].entries) = 11
    /\ Len(hunters[2].entries) = 10
    /\ hunters[2].entries[2].success

C24_VisitedOnce ==
    /\ [][/\ visited \subseteq visited'
          /\ (cpc = "bfs" /\ cpc' = "bfs") =>
                 /\ \A k \in Len(queue)..Len(queue') : queue'[k] \notin visited'
                 /\ SubSeq(queue', 1, Len(queue) - 1) = Tail(queue)
                 /\ Head(queue) \in visited =>
                        /\ fetch_log' = fetch_log
                        /\ visited' = visited
                        /\ queue' = Tail(queue)]_vars
    /\ [](\A i, j \in 1..Len(fetch_log) :
              (i < j /\ fetch_log[i].url = fetch_log[j].url) => fetch_log[i].status # 200)

\* a page linked twice to one URL, both were enqueued, the first was fetched and became
\* visited, the second was popped without a request
C24_Witness ==
    /\ pops = 3
    /\ Len(fetch_log) = 2
    /\ fetch_log[1].status = 200
    /\ fetch_log[2].status = 200
    /\ fetch_log[2].url \in visited
    /\ queue = <<>>

\* C25: every URL an iteration of the BFS appends to the queue has no query and is
\* scheme://host/path of the link it comes from; every visited URL other than the seed has
\* no query; and the requests for links with one scheme, host and path include at most one
\* that made its URL visited.
C25_QueryStripped ==
    /\ [][(cpc = "bfs" /\ cpc' = "bfs") =>
              \A k \in Len(queue)..Len(queue') :
                  /\ queue'[k].query = ""
                  /\ \E n \in 1..Len(page') :
                         LET url == urljoin(Head(queue), page'[n])
                         IN  queue'[k] = Url(url.scheme, url.netloc, url.path, "")]_vars
    /\ [](\A u \in visited : u # base_url => u.query = "")
    /\ [](\A i, j \in 1..Len(fetch_log) :
              (/\ i < j
               /\ fetch_log[i].url # base_url
               /\ fetch_log[i].url.scheme = fetch_log[j].url.scheme
               /\ fetch_log[i].url.netloc = fetch_log[j].url.netloc
               /\ fetch_log[i].url.path = fetch_log[j].url.path) => fetch_log[i].status # 200)

\* the seed page linked to /a and to /a?x=1: both were enqueued as http://a.test/a
C25_Witness ==
    /\ base_url = Url("http", "a.test", "", "")
    /\ visited = {base_url}
    /\ page = <<Href(FALSE, "", "", "/a", ""), Href(FALSE, "", "", "/a", "x=1")>>
    /\ queue = <<Url("http", "a.test", "/a", ""), Url("http", "a.test", "/a", "")>>

\* the position of a path in COMMON_SENSITIVE_PATHS
C26_Index(path) == CHOOSE k \in 1..Len(COMMON_SENSITIVE_PATHS) : COMMON_SENSITIVE_PATHS[k] = path

C27_DigitsDots == {"0", "1", "2", "3", "4", "5", "6", "7", "8", "9", "."}

\* t without its characters other than digits and dots
RECURSIVE C27_Stripped(_)
C27_Stripped(t) ==
    IF t = <<>> THEN <<>>
    ELSE (IF t[1] \in C27_DigitsDots THEN <<t[1]>> ELSE <<>>) \o C27_Stripped(Tail(t))

\* C27: when a rule matches, the version _fingerprint returns is the text its group
\* captured without the characters other than digits and dots, and every version that is
\* not None consists of digits and dots only.
C27_VersionDigitsDots ==
    fp.called =>
        /\ MatchingRules # {} =>
               LET m == Search(Strip(banner), FINGERPRINTS[Least(MatchingRules)])
               IN  fp.r.version = C27_Stripped(SubSeq(Strip(banner), m.gs, m.ge - 1))
        /\ fp.r.version # NoneText =>
               \A k \in 1..Len(fp.r.version) : fp.r.version[k] \in C27_DigitsDots

\* OpenSSH_7.4p1: the capture 7.4p1 becomes 7.41
C27_Witness ==
    /\ fp.called
    /\ fp.r.product = "OpenSSH"
    /\ fp.r.version = <<"7", ".", "4", "1">>
    /\ \E k \in 1..Len(banner) : banner[k] = "p"

\* C29: every entry grab_banner returned has an error text exactly when its success is
\* false; so has the entry grab_banner is about to return.
C29_ErrorIffFailure ==
    /\ \A k \in 1..Len(out.entries) :
           (out.entries[k].error # None) <=> ~out.entries[k].success
    /\ (Returned /\ pc = "loop") => ((res.error # None) <=> ~res.success)

\* a report with an entry of either kind
C29_Witness ==
    /\ pc = "done"
    /\ \E k \in 1..Len(out.entries) : out.entries[k].success /\ out.entries[k].error = None
    /\ \E k \in 1..Len(out.entries) :
           ~out.entries[k].success /\ out.entries[k].error = "Connection refused"

\* C30: when the first rule that matches the banner has a threshold, _fingerprint
\* returns a version that is not None, is not empty and parses, and the risk "ok" or
\* "potentially_outdated".
C30_ThresholdRuleDecides ==
    (fp.called /\ MatchingRules # {}
        /\ FINGERPRINTS[Least(MatchingRules)].threshold # NoneText) =>
        /\ fp.r.version # NoneText
        /\ fp.r.version # <<>>
        /\ \A k \in 1..Len(SplitDots(fp.r.version, <<>>)) :
               SplitDots(fp.r.version, <<>>)[k] # <<>>
        /\ fp.r.risk \in {"ok", "potentially_outdated"}

\* an nginx banner above the threshold, and its version of two segments
C30_Witness ==
    /\ fp.called
    /\ fp.r.product = "nginx"
    /\ Len(SplitDots(fp.r.version, <<>>)) = 2
    /\ fp.r.risk = "ok"

\* C28: when no add_log call is under way, the log file holds, for every call that has
\* returned, the event of that call and the events the call found in the file.
C28_AppendOnly ==
    (\A r \in Requests : requests[r].pc \in {"start", "done"}) =>
        /\ log_file.valid
        /\ \A r \in Requests :
               requests[r].pc = "done" =>
                   \A n \in 1..Len(requests[r].logs) :
                       \E k \in 1..Len(log_file.events) :
                           log_file.events[k] = requests[r].logs[n]

====
